---- MODULE Spec2Model ----
(***************************************************************************)
(* contextmapper (src/index.js): resolution of a template tree against a   *)
(* context store.  JavaScript values are tagged records, strings are       *)
(* sequences of one-character strings, objects keep their keys in          *)
(* enumeration order.  Every function of src/index.js is an operator that  *)
(* returns a completion record: the value returned, how the call ended     *)
(* (returned, TypeError, RangeError) and the probes it invoked, in order.  *)
(***************************************************************************)
EXTENDS Integers, Sequences, FiniteSets

----------------------------------------------------------------------------
(* JavaScript values                                                       *)

Undefined == [t |-> "undefined"]
Null == [t |-> "null"]
NaN == [t |-> "NaN"]
Num(n) == [t |-> "number", n |-> n]
Bool(b) == [t |-> "boolean", b |-> b]
Str(s) == [t |-> "string", s |-> s]
Arr(e) == [t |-> "array", e |-> e]
Obj(k, v) == [t |-> "object", k |-> k, v |-> v]
\* A function value: `f` names its body, the other fields are the values the
\* body closes over.
Fn(f, r) == [t |-> "function", f |-> f, r |-> r]

IsStr(x) == x.t = "string"
IsArr(x) == x.t = "array"
IsObj(x) == x.t = "object"
IsFn(x) == x.t = "function"

\* ToBoolean: undefined, null, NaN, 0, "" and false are falsy.
Truthy(x) ==
  CASE x.t \in {"undefined", "null", "NaN"} -> FALSE
    [] x.t = "number" -> x.n # 0
    [] x.t = "boolean" -> x.b
    [] x.t = "string" -> x.s # <<>>
    [] OTHER -> TRUE

\* Values on which the `in` operator and a property read through it raise a
\* TypeError: everything that is not an object, an array or a function.
IsPrimitive(x) == x.t \in {"undefined", "null", "NaN", "number", "boolean", "string"}

----------------------------------------------------------------------------
(* Strings                                                                 *)

Digits == <<"0", "1", "2", "3", "4", "5", "6", "7", "8", "9">>
HexDigits == Digits \o <<"a", "b", "c", "d", "e", "f">>
Letters == {"a", "b", "c", "d", "e", "f", "g", "h", "i", "j", "k", "l", "m",
            "n", "o", "p", "q", "r", "s", "t", "u", "v", "w", "x", "y", "z", "_"}

IsDigit(c) == \E i \in 1..Len(Digits) : Digits[i] = c
IsHexDigit(c) == \E i \in 1..Len(HexDigits) : HexDigits[i] = c
DigitVal(c) == (CHOOSE i \in 1..Len(HexDigits) : HexDigits[i] = c) - 1
\* \w of a regular expression
IsWordChar(c) == IsDigit(c) \/ c \in Letters

\* String.prototype.indexOf(sep, from), 1-based; 0 when absent
RECURSIVE IndexOf(_, _, _)
IndexOf(s, sep, from) ==
  IF from + Len(sep) - 1 > Len(s) THEN 0
  ELSE IF SubSeq(s, from, from + Len(sep) - 1) = sep THEN from
  ELSE IndexOf(s, sep, from + 1)

Includes(s, sub) == IndexOf(s, sub, 1) # 0

\* String.prototype.split(sep) for a non-empty separator
RECURSIVE Split(_, _)
Split(s, sep) ==
  LET i == IndexOf(s, sep, 1) IN
  IF i = 0 THEN <<s>>
  ELSE <<SubSeq(s, 1, i - 1)>> \o Split(SubSeq(s, i + Len(sep), Len(s)), sep)

\* String.prototype.replace(sub, rep) with a string pattern: first occurrence
Replace(s, sub, rep) ==
  LET i == IndexOf(s, sub, 1) IN
  IF i = 0 THEN s
  ELSE SubSeq(s, 1, i - 1) \o rep \o SubSeq(s, i + Len(sub), Len(s))

\* Number.prototype.toString() of an integer
RECURSIVE NatToStr(_)
NatToStr(n) ==
  IF n < 10 THEN <<Digits[n + 1]>> ELSE NatToStr(n \div 10) \o <<Digits[(n % 10) + 1]>>

IntToStr(n) == IF n < 0 THEN <<"-">> \o NatToStr(-n) ELSE NatToStr(n)

\* Array.prototype.join(",") of already converted elements
RECURSIVE Join(_)
Join(ss) ==
  IF ss = <<>> THEN <<>>
  ELSE IF Len(ss) = 1 THEN ss[1]
  ELSE ss[1] \o <<",">> \o Join(Tail(ss))

\* ToString, as `"" + value` and parseInt(value) apply it
RECURSIVE ToStr(_)
ToStr(x) ==
  CASE x.t = "undefined" -> <<"u", "n", "d", "e", "f", "i", "n", "e", "d">>
    [] x.t = "null" -> <<"n", "u", "l", "l">>
    [] x.t = "NaN" -> <<"N", "a", "N">>
    [] x.t = "number" -> IntToStr(x.n)
    [] x.t = "boolean" -> IF x.b THEN <<"t", "r", "u", "e">> ELSE <<"f", "a", "l", "s", "e">>
    [] x.t = "string" -> x.s
    [] x.t = "array" ->
         Join([i \in 1..Len(x.e) |->
                 IF x.e[i].t \in {"undefined", "null"} THEN <<>> ELSE ToStr(x.e[i])])
    [] x.t = "object" -> <<"[", "o", "b", "j", "e", "c", "t", " ", "O", "b", "j", "e", "c", "t", "]">>
    [] OTHER -> <<"(", ")", " ", "=", ">">>

\* The value of the longest prefix of s[i..] made of digits of the radix
RECURSIVE ParseDigits(_, _, _, _)
ParseDigits(s, i, radix, acc) ==
  IF i <= Len(s) /\ IsHexDigit(s[i]) /\ DigitVal(s[i]) < radix
  THEN ParseDigits(s, i + 1, radix, acc * radix + DigitVal(s[i]))
  ELSE acc

RECURSIVE SkipSpaces(_, _)
SkipSpaces(s, i) == IF i <= Len(s) /\ s[i] = " " THEN SkipSpaces(s, i + 1) ELSE i

\* parseInt(value) with no radix: leading white space, a sign, a 0x prefix,
\* then the longest run of digits; NaN when that run is empty.
parseInt(x) ==
  LET s == ToStr(x)
      i == SkipSpaces(s, 1)
      neg == i <= Len(s) /\ s[i] = "-"
      j == IF i <= Len(s) /\ s[i] \in {"-", "+"} THEN i + 1 ELSE i
      hex == j + 1 <= Len(s) /\ s[j] = "0" /\ s[j + 1] \in {"x", "X"}
      k == IF hex THEN j + 2 ELSE j
      radix == IF hex THEN 16 ELSE 10
  IN IF k <= Len(s) /\ IsHexDigit(s[k]) /\ DigitVal(s[k]) < radix
     THEN Num((IF neg THEN -1 ELSE 1) * ParseDigits(s, k, radix, 0))
     ELSE NaN

----------------------------------------------------------------------------
(* Objects, arrays and functions                                           *)

\* Words used as property names by src/index.js and the examples
K_default == <<"d", "e", "f", "a", "u", "l", "t">>
K_value == <<"v", "a", "l", "u", "e">>
K_length == <<"l", "e", "n", "g", "t", "h">>
K_contexts == <<"c", "o", "n", "t", "e", "x", "t", "s">>
AtValue == <<"@", "v", "a", "l", "u", "e">>

EmptyObj == Obj(<<>>, <<>>)

KeyIndex(o, k) ==
  IF \E i \in 1..Len(o.k) : o.k[i] = k
  THEN CHOOSE i \in 1..Len(o.k) : o.k[i] = k
  ELSE 0

\* The element index a property name denotes (0-based), or -1
ArrayIndex(n, k) ==
  IF \E i \in 0..(n - 1) : IntToStr(i) = k
  THEN CHOOSE i \in 0..(n - 1) : IntToStr(i) = k
  ELSE -1

\* `k in o` for an object, an array or a function.  The names of inherited
\* members (toString, constructor, ...) and of a function's own name and
\* length are not among the property names of the modelled inputs.
HasProp(o, k) ==
  CASE IsObj(o) -> KeyIndex(o, k) # 0
    [] IsArr(o) -> ArrayIndex(Len(o.e), k) >= 0 \/ k = K_length
    [] OTHER -> FALSE

\* `o[k]` for any value but undefined and null
GetProp(o, k) ==
  CASE IsObj(o) -> IF KeyIndex(o, k) # 0 THEN o.v[KeyIndex(o, k)] ELSE Undefined
    [] IsArr(o) ->
         IF ArrayIndex(Len(o.e), k) >= 0 THEN o.e[ArrayIndex(Len(o.e), k) + 1]
         ELSE IF k = K_length THEN Num(Len(o.e))
         ELSE Undefined
    [] IsStr(o) ->
         IF ArrayIndex(Len(o.s), k) >= 0 THEN Str(<<o.s[ArrayIndex(Len(o.s), k) + 1]>>)
         ELSE IF k = K_length THEN Num(Len(o.s))
         ELSE Undefined
    [] OTHER -> Undefined

\* `o[k] = v` on an object: an existing key keeps its place, a new one is last
SetProp(o, k, v) ==
  IF KeyIndex(o, k) # 0
  THEN Obj(o.k, [o.v EXCEPT ![KeyIndex(o, k)] = v])
  ELSE Obj(Append(o.k, k), Append(o.v, v))

\* Calling a function value with one argument.  Probes terminate and do not
\* throw; the bodies are those of the examples:
\*   const:        () => r
\*   getTime:      ({ status }) => ({ hours: r, status })
\*   fromContexts: ({ contexts }) => contexts["@defaults"].loggedOutStatus
ApplyFn(fn, arg) ==
  CASE fn.f = "const" -> fn.r
    [] fn.f = "getTime" -> Obj(<<<<"h">>, <<"s">>>>, <<fn.r, GetProp(arg, <<"s">>)>>)
    [] OTHER -> GetProp(GetProp(GetProp(arg, K_contexts), <<"@", "d">>), <<"l">>)

----------------------------------------------------------------------------
(* Completion records                                                      *)

Return(v, calls) == [st |-> "return", v |-> v, calls |-> calls]
Raise(e, calls) == [st |-> e, v |-> Undefined, calls |-> calls]
Call(fn, arg) == [f |-> fn, a |-> arg]

----------------------------------------------------------------------------
(* getNestedObjectProp, src/index.js 147-160                               *)

\* The end of the run of \w characters that starts at s[i]
RECURSIVE WordEnd(_, _)
WordEnd(s, i) == IF i <= Len(s) /\ IsWordChar(s[i]) THEN WordEnd(s, i + 1) ELSE i

\* s.replace(/\[(\w+)\]/g, ".$1")
RECURSIVE BracketsToDots(_, _)
BracketsToDots(s, i) ==
  IF i > Len(s) THEN <<>>
  ELSE LET j == WordEnd(s, i + 1) IN
       IF s[i] = "[" /\ j > i + 1 /\ j <= Len(s) /\ s[j] = "]"
       THEN <<".">> \o SubSeq(s, i + 1, j - 1) \o BracketsToDots(s, j + 1)
       ELSE <<s[i]>> \o BracketsToDots(s, i + 1)

\* s.replace(/^\./, "")
StripLeadingDot(s) == IF s # <<>> /\ s[1] = "." THEN Tail(s) ELSE s

\* The for loop: `k in o` raises a TypeError when o is not an object
RECURSIVE WalkPath(_, _, _)
WalkPath(o, a, i) ==
  IF i > Len(a) THEN Return(o, <<>>)
  ELSE IF IsPrimitive(o) THEN Raise("TypeError", <<>>)
  ELSE IF HasProp(o, a[i]) THEN WalkPath(GetProp(o, a[i]), a, i + 1)
  ELSE Return(Undefined, <<>>)

getNestedObjectProp(o, s) ==
  WalkPath(o, Split(StripLeadingDot(BracketsToDots(s, 1)), <<".">>), 1)

----------------------------------------------------------------------------
(* doesCriteriaValueMatch, src/index.js 326-334                            *)

\* A comparison that leaves equality out; C5_RangeComparator rejects it
NumGe_Strict(a, b) == a.t = "number" /\ b.t = "number" /\ a.n > b.n

\* a >= b on numbers: false when either side is NaN
NumGe(a, b) == a.t = "number" /\ b.t = "number" /\ a.n >= b.n
NumLe(a, b) == a.t = "number" /\ b.t = "number" /\ a.n <= b.n

doesCriteriaValueMatch(value, criteriaValue) ==
  IF Includes(criteriaValue, <<">", "=">>)
  THEN NumGe(parseInt(value), parseInt(Str(Replace(criteriaValue, <<">", "=">>, <<>>))))
  ELSE IF Includes(criteriaValue, <<"<", "=">>)
  THEN NumLe(parseInt(value), parseInt(Str(Replace(criteriaValue, <<"<", "=">>, <<>>))))
  ELSE ToStr(value) = criteriaValue

----------------------------------------------------------------------------
(* parseFunctionSignature, getContextValue, reconcileContextualValue       *)
(* src/index.js 123-134, 184-253, 345-457                                  *)
(*                                                                         *)
(* The three functions call each other.  `stack` holds the arguments of    *)
(* the calls of reconcileContextualValue that have not returned: with      *)
(* probes that are functions of their argument, a call that is entered     *)
(* again with the argument of a call still running repeats it for ever,    *)
(* and recursion that never ends is what the engine reports as a           *)
(* RangeError (stack overflow).                                            *)

\* The last i in lo..hi with s[i] = c, or 0
RECURSIVE LastIndexOf(_, _, _, _)
LastIndexOf(s, c, lo, hi) ==
  IF hi < lo THEN 0
  ELSE IF s[hi] = c THEN hi
  ELSE LastIndexOf(s, c, lo, hi - 1)

\* toParse.match(/^(?<functionName>[^\[]+)\[(?<args>[^\]]*)\](?<property>.+):(?<match>.+)$/)
MatchSignature(toParse) ==
  LET lb == IndexOf(toParse, <<"[">>, 1)
      rb == IF lb = 0 THEN 0 ELSE IndexOf(toParse, <<"]">>, lb + 1)
      rest == IF rb = 0 THEN <<>> ELSE SubSeq(toParse, rb + 1, Len(toParse))
      c == LastIndexOf(rest, ":", 2, Len(rest) - 1)
  IN IF lb >= 2 /\ rb # 0 /\ c # 0
     THEN [ok |-> TRUE,
           functionName |-> SubSeq(toParse, 1, lb - 1),
           args |-> SubSeq(toParse, lb + 1, rb - 1),
           property |-> SubSeq(rest, 1, c - 1),
           match |-> SubSeq(rest, c + 1, Len(rest))]
     ELSE [ok |-> FALSE, functionName |-> <<>>, args |-> <<>>,
           property |-> <<>>, match |-> <<>>]

\* `if (parsedFunctionValue)`, line 395: whether a function-call clause counts
ClauseCounts(parsedFunctionValue) == Truthy(parsedFunctionValue)

\* v.includes(x): x is a string and one of the alternatives
ListIncludes(v, x) == IsStr(x) /\ \E i \in 1..Len(v) : v[i] = x.s

\* contextValue.find((val) => v.includes(val)), undefined when there is none
ArrayFind(e, v) ==
  IF \E i \in 1..Len(e) : ListIncludes(v, e[i])
  THEN e[CHOOSE i \in 1..Len(e) :
           ListIncludes(v, e[i]) /\ \A j \in 1..(i - 1) : ~ListIncludes(v, e[j])]
  ELSE Undefined

\* A match on the first alternative only and on strings only;
\* C4_OrAlternation rejects it
MatchingValue_FirstOnly(contextValue, v) ==
  Bool(IsStr(contextValue) /\ v # <<>> /\ v[1] = contextValue.s)

\* matchingValue, lines 420-422
MatchingValue(contextValue, v) ==
  IF IsArr(contextValue) THEN ArrayFind(contextValue.e, v)
  ELSE Bool(ListIncludes(v, contextValue))

\* A branch that wins only with strictly more parts, so that the first of
\* equals is kept; C2_BranchSelection rejects it
BranchWins_Strict(partsToMatch, partsMatched, highestPartsMatched) ==
  Len(partsToMatch) = partsMatched /\ partsMatched > highestPartsMatched

\* The condition of lines 434-437
BranchWins(partsToMatch, partsMatched, highestPartsMatched) ==
  Len(partsToMatch) = partsMatched /\ partsMatched >= highestPartsMatched

\* obj["default"] || obj["value"], line 362
DefaultValue(obj) ==
  IF Truthy(GetProp(obj, K_default)) THEN GetProp(obj, K_default)
  ELSE GetProp(obj, K_value)

\* Object.keys(obj).filter(...), lines 359-361
RECURSIVE FilterKeys(_)
FilterKeys(ks) ==
  IF ks = <<>> THEN <<>>
  ELSE IF ks[1] # K_default /\ ks[1] # K_value THEN <<ks[1]>> \o FilterKeys(Tail(ks))
  ELSE FilterKeys(Tail(ks))

OnStack(obj, stack) == \E i \in 1..Len(stack) : stack[i] = obj

\* Lines 450-452
ParseResponse(finalValue) ==
  (IsStr(finalValue) /\ finalValue.s # <<>> /\ finalValue.s[1] = "@")
  \/ IsObj(finalValue) \/ IsArr(finalValue)

RECURSIVE parseFunctionSignature(_, _, _)
RECURSIVE getContextValue(_, _, _)
RECURSIVE reconcileContextualValue(_, _, _)
RECURSIVE BindArgs(_, _, _, _, _)
RECURSIVE PartLoop(_, _, _, _, _)
RECURSIVE KeyLoop(_, _, _, _, _, _)
RECURSIVE MapArray(_, _, _, _, _)


\* Lines 128-133: the value found is resolved when it is truthy
ParsedValue(value, contexts, stack) ==
  IF value.st # "return" THEN value
  ELSE IF Truthy(value.v) THEN reconcileContextualValue(value.v, contexts, stack)
  ELSE value

getContextValue(address, contexts, stack) ==
  ParsedValue(getNestedObjectProp(contexts, address), contexts, stack)

\* `reduced[k] = ...`, lines 237 and 239: r is the completion of the value
Bound(acc, k, r) ==
  [st |-> r.st, v |-> SetProp(acc.v, k, r.v), calls |-> acc.calls \o r.calls]

\* One item of the argument list: k and v of item.split(":"), lines 235-240
BindItem(acc, kv, contexts, stack) ==
  IF Len(kv) >= 2 /\ kv[2] # <<>> /\ kv[2][1] = "@"
  THEN Bound(acc, kv[1], getContextValue(kv[2], contexts, stack))
  ELSE Bound(acc, kv[1], Return(IF Len(kv) >= 2 THEN Str(kv[2]) ELSE Undefined, <<>>))

\* The reduce of lines 233-243 from item i on; acc is the completion so far
BindArgs(items, i, contexts, stack, acc) ==
  IF i > Len(items) \/ acc.st # "return" THEN acc
  ELSE BindArgs(items, i + 1, contexts, stack,
                BindItem(acc, Split(items[i], <<":">>), contexts, stack))

\* Lines 251-252
CompareResponse(m, calls, finalValue) ==
  IF finalValue.st # "return" THEN Raise(finalValue.st, calls)
  ELSE IF doesCriteriaValueMatch(finalValue.v, m.match) THEN Return(finalValue.v, calls)
  ELSE Return(Null, calls)

\* Lines 247-249
ExtractProperty(m, response) ==
  IF m.property # <<>> THEN getNestedObjectProp(response, m.property)
  ELSE Return(response, <<>>)

\* Lines 245-252: the call of the probe with the bound arguments
InvokeProbe(fn, m, callProps) ==
  IF callProps.st # "return" THEN Raise(callProps.st, callProps.calls)
  ELSE CompareResponse(m, Append(callProps.calls, Call(fn, callProps.v)),
                       ExtractProperty(m, ApplyFn(fn, callProps.v)))

\* Lines 221-243: the callable check and the argument record
CallTarget(fn, m, contexts, stack) ==
  IF ~(Truthy(fn) /\ IsFn(fn)) THEN Return(Null, <<>>)
  ELSE InvokeProbe(fn, m,
                   IF m.args # <<>>
                   THEN BindArgs(Split(m.args, <<",">>), 1, contexts, stack,
                                 Return(EmptyObj, <<>>))
                   ELSE Return(EmptyObj, <<>>))

\* Lines 212-219
ParseRemainder(pathToFunction, m, contexts, stack) ==
  IF ~m.ok THEN Return(Null, <<>>)
  ELSE CallTarget(GetProp(pathToFunction, m.functionName), m, contexts, stack)

\* Lines 187-191
LocateFunction(pathToFunction, toParse, contexts, stack) ==
  IF pathToFunction.st # "return" THEN pathToFunction
  ELSE IF ~Truthy(pathToFunction.v) THEN Return(Null, <<>>)
  ELSE ParseRemainder(pathToFunction.v, MatchSignature(toParse), contexts, stack)

parseFunctionSignature(signature, contexts, stack) ==
  LocateFunction(getNestedObjectProp(contexts, signature[1]), signature[2],
                 contexts, stack)

\* The inner loop's variables after a clause: matched, or the loop is left
Matched(s, r) ==
  [s EXCEPT !.parsedValue = r.v, !.partsMatched = @ + 1, !.calls = s.calls \o r.calls]
Broken(s, r) ==
  [s EXCEPT !.brk = TRUE, !.calls = s.calls \o r.calls]
Thrown(s, r) ==
  [s EXCEPT !.brk = TRUE, !.st = r.st, !.calls = s.calls \o r.calls]

\* Lines 390-400: a function-call clause, r the completion of parseFunctionSignature
FunctionClause(s, r) ==
  IF r.st # "return" THEN Thrown(s, r)
  ELSE IF ClauseCounts(r.v) THEN Matched(s, r)
  ELSE Broken(s, r)

\* Lines 402-429: an address clause, r the completion of getContextValue
AddressClause(s, criteria, r) ==
  IF r.st # "return" THEN Thrown(s, r)
  ELSE IF Len(criteria) = 1 THEN [Broken(s, r) EXCEPT !.finalValue = r.v]
  ELSE IF r.v.t \in {"null", "undefined"} THEN Broken(s, r)
  ELSE IF Truthy(MatchingValue(r.v, Split(criteria[2], <<"|", "|">>))) THEN Matched(s, r)
  ELSE Broken(s, r)

\* Lines 383-431: one clause
Clause(part, funcs, contexts, stack, s) ==
  IF part = <<>> \/ part[1] # "@" THEN s
  ELSE IF Len(funcs) > 1
  THEN FunctionClause(s, parseFunctionSignature(funcs, contexts, stack))
  ELSE AddressClause(s, Split(part, <<":">>),
                     getContextValue(Split(part, <<":">>)[1], contexts, stack))

\* The inner loop, lines 381-432, from part i on.  s holds its variables:
\* parsedValue, partsMatched, finalValue, whether it was left by a break or
\* an exception, and the completion so far.
PartLoop(partsToMatch, i, contexts, stack, s) ==
  IF i > Len(partsToMatch) \/ s.brk THEN s
  ELSE PartLoop(partsToMatch, i + 1, contexts, stack,
                Clause(partsToMatch[i], Split(partsToMatch[i], <<":", ":">>),
                       contexts, stack, s))

\* One pass of the outer loop for `key`, lines 377-432
EvalKey(key, contexts, stack, finalValue, calls) ==
  PartLoop(Split(key, <<" ">>), 1, contexts, stack,
           [parsedValue |-> Null, partsMatched |-> 0, finalValue |-> finalValue,
            brk |-> FALSE, st |-> "return", calls |-> calls])

\* A selection that always takes the declared value; C13_AtValue rejects it
SelectBranch_Declared(obj, key, s, e) ==
  IF e.st # "return"
  THEN [s EXCEPT !.st = e.st, !.calls = e.calls]
  ELSE IF BranchWins(Split(key, <<" ">>), e.partsMatched, s.highestPartsMatched)
  THEN [finalValue |-> GetProp(obj, key), highestPartsMatched |-> e.partsMatched,
        st |-> "return", calls |-> e.calls]
  ELSE [s EXCEPT !.finalValue = e.finalValue, !.calls = e.calls]

\* Lines 434-440: the outer loop's variables after the pass e for `key`
SelectBranch(obj, key, s, e) ==
  IF e.st # "return"
  THEN [s EXCEPT !.st = e.st, !.calls = e.calls]
  ELSE IF BranchWins(Split(key, <<" ">>), e.partsMatched, s.highestPartsMatched)
  THEN [finalValue |-> IF GetProp(obj, key) = Str(AtValue)
                       THEN e.parsedValue ELSE GetProp(obj, key),
        highestPartsMatched |-> e.partsMatched,
        st |-> "return", calls |-> e.calls]
  ELSE [s EXCEPT !.finalValue = e.finalValue, !.calls = e.calls]

\* The outer loop, lines 376-441, from key i on.  s holds finalValue,
\* highestPartsMatched and the completion so far.
KeyLoop(obj, possibleValues, i, contexts, stack, s) ==
  IF i > Len(possibleValues) \/ s.st # "return" THEN s
  ELSE KeyLoop(obj, possibleValues, i + 1, contexts, stack,
               SelectBranch(obj, possibleValues[i], s,
                            EvalKey(possibleValues[i], contexts, stack,
                                    s.finalValue, s.calls)))

Mapped(acc, r) ==
  [st |-> r.st, v |-> Arr(Append(acc.v.e, r.v)), calls |-> acc.calls \o r.calls]

\* obj.map((i) => reconcileContextualValue(i, contexts)), line 350
MapArray(e, i, contexts, stack, acc) ==
  IF i > Len(e) \/ acc.st # "return" THEN acc
  ELSE MapArray(e, i + 1, contexts, stack,
                Mapped(acc, reconcileContextualValue(e[i], contexts, stack)))

\* Lines 362-367: a callable default is replaced by what it returns
SeedOf(defaultValue, contexts) ==
  IF IsFn(defaultValue)
  THEN Return(ApplyFn(defaultValue, Obj(<<K_contexts>>, <<contexts>>)),
              <<Call(defaultValue, Obj(<<K_contexts>>, <<contexts>>))>>)
  ELSE Return(defaultValue, <<>>)

\* Lines 353-374: the loop's initial finalValue and the keys to try
Seed(obj, contexts) ==
  IF IsObj(obj) THEN SeedOf(DefaultValue(obj), contexts) ELSE Return(obj, <<>>)

PossibleValues(obj) == IF IsObj(obj) THEN FilterKeys(obj.k) ELSE <<obj.s>>

LoopStart(seed) ==
  [finalValue |-> seed.v, highestPartsMatched |-> 0, st |-> "return",
   calls |-> seed.calls]

Prefixed(calls, r) == [r EXCEPT !.calls = calls \o r.calls]

\* A resolution without the null collapse; C15_ResultShape rejects it
Resolve_NoCollapse(finalValue, contexts, stack, calls) ==
  IF ParseResponse(finalValue)
  THEN Prefixed(calls, reconcileContextualValue(finalValue, contexts, stack))
  ELSE Return(finalValue, calls)

\* Lines 443-456: null collapse and re-resolution of the value the loop left
Resolve(finalValue, contexts, stack, calls) ==
  IF ~Truthy(finalValue) THEN Return(Null, calls)
  ELSE IF ParseResponse(finalValue)
  THEN Prefixed(calls, reconcileContextualValue(finalValue, contexts, stack))
  ELSE Return(finalValue, calls)

AfterLoop(loop, contexts, stack) ==
  IF loop.st # "return" THEN Raise(loop.st, loop.calls)
  ELSE Resolve(loop.finalValue, contexts, stack, loop.calls)

reconcileContextualValue(obj, contexts, stack) ==
  IF ~Truthy(obj) THEN Return(Null, <<>>)
  ELSE IF OnStack(obj, stack) THEN Raise("RangeError", <<>>)
  ELSE IF IsArr(obj)
  THEN MapArray(obj.e, 1, contexts, Append(stack, obj), Return(Arr(<<>>), <<>>))
  ELSE IF ~(IsObj(obj) \/ IsStr(obj)) THEN Return(obj, <<>>)
  ELSE AfterLoop(KeyLoop(obj, PossibleValues(obj), 1, contexts, Append(stack, obj),
                         LoopStart(Seed(obj, contexts))),
                 contexts, Append(stack, obj))

----------------------------------------------------------------------------
(* hoistContextualValues, src/index.js 50-63                               *)

\* A callback that invokes the functions of the template;
\* C1_HoistKeysAndValues rejects it
HoistValue_Invoking(v, contexts) ==
  IF ~IsFn(v) THEN reconcileContextualValue(v, contexts, <<>>)
  ELSE Return(ApplyFn(v, Obj(<<K_contexts>>, <<contexts>>)),
              <<Call(v, Obj(<<K_contexts>>, <<contexts>>))>>)

\* Lines 52-55: the value the reduce callback computes for obj[cur]
HoistValue(v, contexts) ==
  IF ~IsFn(v) THEN reconcileContextualValue(v, contexts, <<>>)
  ELSE Return(v, <<>>)

\* A callback that writes into the template as well; C8_InputsUnchanged
\* rejects it
HoistWrite_InPlace(reduced, obj, cur, v) ==
  [reduced |-> SetProp(reduced, cur, v), obj |-> SetProp(obj, cur, v)]

\* Line 57, `reduced[cur] = v`: the objects the callback holds, after the write
HoistWrite(reduced, obj, cur, v) ==
  [reduced |-> SetProp(reduced, cur, v), obj |-> obj]

----------------------------------------------------------------------------
(* Inputs                                                                  *)

\* Hours a getTime probe reports: 0 .. MaxHours
MaxHours == 12

S(c) == Str(<<c>>)
A_x == <<"@", "a", ".", "x">>
A_y == <<"@", "a", ".", "y">>

\* A rule object stored at @a.x: resolves to "p" while @a.y is "q"
StoredRule == Obj(<<K_default, A_y \o <<":", "q">>>>, <<S("r"), S("p")>>)

\* The values tried at @a.x (Undefined: the key x is absent)
XValues ==
  << S("p"), S("q"), S("r"), Num(17), Arr(<<S("r"), S("p")>>), Arr(<<S("r")>>),
     Undefined, StoredRule, Num(0), Str(<<>>), Str(A_x), Null >>

\* The store: namespace @a (state), @t (probes), @d (defaults), @c (content).
\*   @a: { x: <x>, y: "q", n: 20 }              x is absent when <x> is undefined
\*   @t: { g: getTime probe reporting <hours>, k: 5, c: () => 5, u: () => undefined }
\*   @d: { l: "o" }
\*   @c: { g: { default: "d", "@a.x:p": { "@a.y:q": "m", "@a.y:r": "n" } } }
NamespaceA(x) ==
  IF x = Undefined
  THEN Obj(<<<<"y">>, <<"n">>>>, <<S("q"), Num(20)>>)
  ELSE Obj(<<<<"x">>, <<"y">>, <<"n">>>>, <<x, S("q"), Num(20)>>)

NamespaceT(hours) ==
  Obj(<<<<"g">>, <<"k">>, <<"c">>, <<"u">>>>,
      <<Fn("getTime", Num(hours)), Num(5), Fn("const", Num(5)), Fn("const", Undefined)>>)

NamespaceD == Obj(<<<<"l">>>>, <<S("o")>>)

NamespaceC ==
  Obj(<<<<"g">>>>,
      <<Obj(<<K_default, A_x \o <<":", "p">>>>,
            <<S("d"), Obj(<<A_y \o <<":", "q">>, A_y \o <<":", "r">>>>,
                          <<S("m"), S("n")>>)>>)>>)

Store(x, hours) ==
  Obj(<<<<"@", "a">>, <<"@", "t">>, <<"@", "d">>, <<"@", "c">>>>,
      <<NamespaceA(x), NamespaceT(hours), NamespaceD, NamespaceC>>)

\* The store without the namespace @a
StoreNoA(hours) ==
  Obj(<<<<"@", "t">>, <<"@", "d">>, <<"@", "c">>>>,
      <<NamespaceT(hours), NamespaceD, NamespaceC>>)

Stores ==
  [i \in 1..Len(XValues) |-> Store(XValues[i], 18)]
  \o [h \in 1..(MaxHours + 1) |-> Store(S("p"), h - 1)]
  \o <<StoreNoA(18)>>

\* Criteria keys
C_xp == A_x \o <<":", "p">>
C_xpq == A_x \o <<":", "p", "|", "|", "q">>
C_yq == A_y \o <<":", "q">>
C_xp_yq == C_xp \o <<" ">> \o C_yq
\* @t::g[].h:<=11 and @t::g[].h:>=12
F_le11 == <<"@", "t", ":", ":", "g", "[", "]", ".", "h", ":", "<", "=", "1", "1">>
F_ge12 == <<"@", "t", ":", ":", "g", "[", "]", ".", "h", ":", ">", "=", "1", "2">>
\* @t::g[f:b,s:@a.x].h:>=17
F_args == <<"@", "t", ":", ":", "g", "[", "f", ":", "b", ",", "s", ":">> \o A_x
          \o <<"]", ".", "h", ":", ">", "=", "1", "7">>
\* @t::g[.h:>=17 has no closing bracket
F_malformed == <<"@", "t", ":", ":", "g", "[", ".", "h", ":", ">", "=", "1", "7">>
\* @t::k[].h:5, @t::c[].h:5, @t::u[].h:5: k is a number, c returns 5, u undefined
F_notCallable == <<"@", "t", ":", ":", "k", "[", "]", ".", "h", ":", "5">>
F_returnsNumber == <<"@", "t", ":", ":", "c", "[", "]", ".", "h", ":", "5">>
\* Nothing between ] and the colon
F_emptyProperty == <<"@", "t", ":", ":", "c", "[", "]", ":", "5">>
F_returnsUndefined == <<"@", "t", ":", ":", "u", "[", "]", ".", "h", ":", "5">>
\* @z.x:p (no namespace @z), @a.w.z:p (no segment w), @a.y.z:p (y is a string)
P_noNamespace == <<"@", "z", ".", "x", ":", "p">>
P_noSegment == <<"@", "a", ".", "w", ".", "z", ":", "p">>
P_throughStringAddress == <<"@", "a", ".", "y", ".", "z">>
P_throughString == <<"@", "a", ".", "y", ".", "z", ":", "p">>

\* The namespace before :: is absent from every store
F_absent == <<"@", "z", ":", ":", "g", "[", "]", ".", "h", ":", ">", "=", "1", "2">>
\* An argument whose address goes through the string at @a.y
F_argThroughString ==
  <<"@", "t", ":", ":", "g", "[", "s", ":">> \o P_throughStringAddress
  \o <<"]", ".", "h", ":", ">", "=", "1", "2">>

Rule1(k1, v1) == Obj(<<K_default, k1>>, <<S("d"), v1>>)
Rule2(k1, v1, k2, v2) == Obj(<<K_default, k1, k2>>, <<S("d"), v1, v2>>)

RuleAm == Rule1(C_xp, S("m"))
RuleOr == Rule1(C_xpq, S("m"))
\* @a.n:17||20 against the number 20
RuleOrNumber == Rule1(<<"@", "a", ".", "n", ":", "1", "7", "|", "|", "2", "0">>, S("m"))
RuleLe11 == Rule1(F_le11, S("m"))
RuleSpecific12 == Obj(<<C_xp, C_xp_yq>>, <<S("s"), S("t")>>)
RuleSpecific21 == Obj(<<C_xp_yq, C_xp>>, <<S("t"), S("s")>>)
RuleTie12 == Rule2(C_xp, S("s"), C_yq, S("t"))
RuleTie21 == Rule2(C_yq, S("t"), C_xp, S("s"))
RuleTime == Rule2(F_le11, S("m"), F_ge12, S("n"))
RuleArgs == Rule1(F_args, S("m"))
RuleMalformed == Rule1(F_malformed, S("m"))
RuleNotCallable == Rule1(F_notCallable, S("m"))
RuleReturnsNumber == Rule1(F_returnsNumber, S("m"))
RuleReturnsUndefined == Rule1(F_returnsUndefined, S("m"))
RuleEmptyProperty == Rule1(F_emptyProperty, S("m"))
RuleAbsent == Rule1(F_absent, S("m"))
RuleArgThroughString == Rule1(F_argThroughString, S("m"))
RuleAddressThenProbe == Rule1(C_xp \o <<" ">> \o F_ge12, S("m"))
RuleProbeThenAddress == Rule1(F_ge12 \o <<" ">> \o C_xp, S("m"))
RuleProbeThenProbe == Rule1(F_le11 \o <<" ">> \o F_args, S("m"))
RuleNoNamespace == Rule1(P_noNamespace, S("m"))
RuleNoSegment == Rule1(P_noSegment, S("m"))
RuleThroughString == Rule1(P_throughString, S("m"))
RuleSeedFn == Obj(<<K_value, C_xp>>, <<Fn("fromContexts", Null), S("m")>>)
RuleAtValue == Rule1(C_xpq, Str(AtValue))
\* @value on the 2-clause key, before a 1-clause key that also matches
RuleAtValueFirst == Obj(<<C_xp_yq, C_xp>>, <<Str(AtValue), S("s")>>)
\* @value on the later of two 1-clause keys
RuleAtValueLast == Obj(<<C_yq, C_xpq>>, <<S("s"), Str(AtValue)>>)
RuleAtValueProbe == Rule1(F_ge12, Str(AtValue))
RuleBare == Obj(<<A_x, C_yq>>, <<S("i"), S("m")>>)
\* The bare-address key enumerated after the criteria key
RuleBareLast == Obj(<<C_yq, A_x>>, <<S("m"), S("i")>>)
RuleToAddress == Rule1(C_xp, Str(A_y))
\* A default that is present and falsy, beside a value
RuleFalsyDefault == Obj(<<K_default, K_value, C_xp>>, <<Str(<<>>), S("v"), S("m")>>)
PlainMapping == Obj(<<<<"b">>, <<"f">>>>, <<S("x"), S("y")>>)
Hello == Str(<<"h", "e", "l", "l", "o">>)

\* Arguments of reconcileContextualValue
Nodes ==
  << RuleAm, RuleOr, RuleOrNumber, RuleLe11, RuleSpecific12, RuleSpecific21, RuleTie12, RuleTie21,
     RuleTime, RuleArgs, RuleMalformed, RuleNotCallable, RuleReturnsNumber,
     RuleReturnsUndefined, RuleEmptyProperty, RuleAbsent, RuleArgThroughString,
     RuleAddressThenProbe, RuleProbeThenAddress, RuleProbeThenProbe, RuleNoNamespace, RuleNoSegment, RuleThroughString,
     RuleSeedFn, RuleAtValue, RuleAtValueFirst, RuleAtValueLast, RuleAtValueProbe,
     RuleBare, RuleBareLast, RuleToAddress, RuleFalsyDefault,
     PlainMapping,
     Str(A_x), Str(<<"@", "c", ".", "g">>), Str(C_xp), Str(F_ge12), Hello,
     Str(<<"h", " ">> \o A_x), Str(<<"h", " ">> \o C_xp), Num(23), Num(0), Bool(TRUE), Bool(FALSE),
     Arr(<<Num(1), S("x"), RuleAm>>), Arr(<<>>), Fn("const", S("z")), Undefined >>

\* Arguments of hoistContextualValues
Templates ==
  << Obj(<<<<"i">>, <<"t">>>>, <<Num(23), RuleAm>>),
     Obj(<<<<"f">>, <<"t">>, <<"g">>>>, <<Fn("const", S("z")), RuleTime, Fn("getTime", Num(9))>>),
     Obj(<<<<"n">>, <<"s">>, <<"l">>, <<"b">>>>,
         <<Num(23), Hello, Arr(<<Num(1), S("x")>>), Bool(TRUE)>>),
     Obj(<<<<"c">>>>, <<PlainMapping>>),
     Obj(<<<<"n">>, <<"s">>>>, <<Num(0), Hello>>),
     Obj(<<<<"t">>, <<"i">>>>, <<RuleThroughString, Num(23)>>),
     Obj(<<<<"i">>, <<"t">>>>, <<Num(23), RuleReturnsNumber>>),
     Obj(<<<<"g">>>>, <<Str(<<"@", "c", ".", "g">>)>>),
     Obj(<<<<"g">>, <<"i">>>>, <<Str(C_xp), Num(23)>>),
     Obj(<<<<"e">>, <<"o">>, <<"v">>>>, <<RuleArgs, RuleOr, RuleSeedFn>>),
     EmptyObj >>

\* Arguments of getContextValue
Addresses ==
  << A_x, A_y, <<"@", "a">>, <<"@", "a", ".", "n">>, <<"@", "c", ".", "g">>,
     <<"@", "z", ".", "x">>, <<"@", "a", ".", "w", ".", "z">>,
     <<"@", "a", ".", "y", ".", "z">>, A_x \o <<"[", "1", "]">>,
     <<"@", "t", ".", "g">>, <<"@">> >>

\* Arguments of doesCriteriaValueMatch: actual values 0 .. MaxActual and others
MaxActual == 21

Actuals ==
  [n \in 1..(MaxActual + 1) |-> Num(n - 1)]
  \o << Str(<<"1", "7">>), Str(<<"1", "6">>), Str(<<"a", "b", "c">>),
        Str(<<"2", "0", "p", "x">>), Str(<<" ", "2", "0">>), Str(<<"-", "5">>),
        Str(<<"0", "x", "1", "f">>), Str(<<>>), S("p"), Num(-3), NaN, Undefined,
        Null, Bool(TRUE), Arr(<<Num(20)>>), Arr(<<S("p")>>), Arr(<<>>),
        PlainMapping, Fn("const", Num(20)) >>

E_ge17 == <<">", "=", "1", "7">>
E_le11 == <<"<", "=", "1", "1">>
E_ge3le9 == <<">", "=", "3", "<", "=", "9">>

Expressions ==
  << E_ge17, E_le11, E_ge3le9, <<"<", "=", "1", "7">>, <<">", "=", "a">>,
     <<"1", "7">>, <<"p">>, <<"t", "r", "u", "e">>, <<"2", "0">>,
     <<"u", "n", "d", "e", "f", "i", "n", "e", "d">> >>

----------------------------------------------------------------------------
(* The calls                                                               *)

VARIABLES
  op,             \* the exported function that is called
  obj,            \* hoistContextualValues, reconcileContextualValue: obj
  contexts,       \* the context store
  address,        \* getContextValue: address
  value,          \* doesCriteriaValueMatch: value
  criteriaValue,  \* doesCriteriaValueMatch: criteriaValue
  pc,             \* "call", "reduce" (inside hoistContextualValues), "done"
  ix,             \* hoistContextualValues: the reduce index
  reduced,        \* hoistContextualValues: the reduce accumulator
  ret,            \* the value returned
  outcome,        \* "pending", "return", "TypeError", "RangeError"
  calls           \* the functions invoked so far, with their arguments

vars == <<op, obj, contexts, address, value, criteriaValue, pc, ix, reduced,
          ret, outcome, calls>>

Init ==
  /\ pc = "call" /\ ix = 0 /\ reduced = EmptyObj /\ ret = Undefined
  /\ outcome = "pending" /\ calls = <<>>
  /\ \/ /\ op = "hoistContextualValues"
        /\ \E i \in 1..Len(Templates) : obj = Templates[i]
        /\ \E j \in 1..Len(Stores) : contexts = Stores[j]
        /\ address = <<>> /\ value = Undefined /\ criteriaValue = <<>>
     \/ /\ op = "reconcileContextualValue"
        /\ \E i \in 1..Len(Nodes) : obj = Nodes[i]
        /\ \E j \in 1..Len(Stores) : contexts = Stores[j]
        /\ address = <<>> /\ value = Undefined /\ criteriaValue = <<>>
     \/ /\ op = "getContextValue"
        /\ \E i \in 1..Len(Addresses) : address = Addresses[i]
        /\ \E j \in 1..Len(Stores) : contexts = Stores[j]
        /\ obj = Undefined /\ value = Undefined /\ criteriaValue = <<>>
     \/ /\ op = "doesCriteriaValueMatch"
        /\ \E i \in 1..Len(Actuals) : value = Actuals[i]
        /\ \E j \in 1..Len(Expressions) : criteriaValue = Expressions[j]
        /\ obj = Undefined /\ contexts = Undefined /\ address = <<>>

\* The callback's effect for the key cur, v the completion of its value
Reduced(cur, v) ==
  /\ calls' = calls \o v.calls
  /\ IF v.st = "return"
     THEN /\ reduced' = HoistWrite(reduced, obj, cur, v.v).reduced
          /\ obj' = HoistWrite(reduced, obj, cur, v.v).obj
          /\ ix' = ix + 1 /\ pc' = "reduce"
          /\ UNCHANGED <<ret, outcome>>
     ELSE /\ outcome' = v.st /\ pc' = "done"
          /\ UNCHANGED <<obj, reduced, ix, ret>>

\* The completion of a call becomes the state's ret, outcome and calls
Completed(r) == ret' = r.v /\ outcome' = r.st /\ calls' = r.calls

\* One call of the reduce callback, lines 51-60; an exception ends the call
HoistReduce ==
  /\ op = "hoistContextualValues" /\ pc \in {"call", "reduce"} /\ ix < Len(obj.k)
  /\ Reduced(obj.k[ix + 1], HoistValue(obj.v[ix + 1], contexts))
  /\ UNCHANGED <<op, contexts, address, value, criteriaValue>>

\* Line 62, `return { ...hoisted }`
HoistReturn ==
  /\ op = "hoistContextualValues" /\ pc \in {"call", "reduce"} /\ ix = Len(obj.k)
  /\ ret' = Obj(reduced.k, reduced.v) /\ outcome' = "return" /\ pc' = "done"
  /\ UNCHANGED <<op, obj, contexts, address, value, criteriaValue, ix, reduced, calls>>

Reconcile ==
  /\ op = "reconcileContextualValue" /\ pc = "call"
  /\ Completed(reconcileContextualValue(obj, contexts, <<>>))
  /\ pc' = "done"
  /\ UNCHANGED <<op, obj, contexts, address, value, criteriaValue, ix, reduced>>

GetContextValue ==
  /\ op = "getContextValue" /\ pc = "call"
  /\ Completed(getContextValue(address, contexts, <<>>))
  /\ pc' = "done"
  /\ UNCHANGED <<op, obj, contexts, address, value, criteriaValue, ix, reduced>>

DoesCriteriaValueMatch ==
  /\ op = "doesCriteriaValueMatch" /\ pc = "call"
  /\ ret' = Bool(doesCriteriaValueMatch(value, criteriaValue))
  /\ outcome' = "return" /\ pc' = "done"
  /\ UNCHANGED <<op, obj, contexts, address, value, criteriaValue, ix, reduced, calls>>

Next == HoistReduce \/ HoistReturn \/ Reconcile \/ GetContextValue \/ DoesCriteriaValueMatch

Spec == Init /\ [][Next]_vars

----------------------------------------------------------------------------
(* Vocabulary of the properties                                            *)

Parts(key) == Split(key, <<" ">>)

\* A clause with a matchSpec or a function call: @address:... or @address::...
IsCriterionClause(part) == part # <<>> /\ part[1] = "@" /\ Includes(part, <<":">>)
IsCriteriaKey(key) == \A i \in 1..Len(Parts(key)) : IsCriterionClause(Parts(key)[i])

\* A rule object all of whose keys, default and value aside, are criteria keys
IsCriteriaRule(x) ==
  IsObj(x) /\ \A i \in 1..Len(PossibleValues(x)) : IsCriteriaKey(PossibleValues(x)[i])

\* The pass of the outer loop for key i of the rule object x, taken alone
KeyPass(x, i) ==
  EvalKey(PossibleValues(x)[i], contexts, <<x>>, Undefined, <<>>)

\* Key i fully matches: matched parts = number of space-separated clauses
FullyMatches(x, i) ==
  KeyPass(x, i).st = "return"
  /\ KeyPass(x, i).partsMatched = Len(Parts(PossibleValues(x)[i]))

Matching(x) == {i \in 1..Len(PossibleValues(x)) : FullyMatches(x, i)}

\* The most specific fully matching key, the last one among equals
MostSpecificLast(x) ==
  CHOOSE i \in Matching(x) :
    \A j \in Matching(x) :
      \/ Len(Parts(PossibleValues(x)[j])) < Len(Parts(PossibleValues(x)[i]))
      \/ (Len(Parts(PossibleValues(x)[j])) = Len(Parts(PossibleValues(x)[i])) /\ j <= i)

\* What the rule object x yields when key i is the selected branch
BranchResult(x, i) ==
  Resolve(IF GetProp(x, PossibleValues(x)[i]) = Str(AtValue)
          THEN KeyPass(x, i).parsedValue
          ELSE GetProp(x, PossibleValues(x)[i]),
          contexts, <<x>>, <<>>).v

\* The calls made while resolving the values v[i..] that are not functions
RECURSIVE CallsOfValues(_, _)
CallsOfValues(v, i) ==
  IF i > Len(v) THEN <<>>
  ELSE IF IsFn(v[i]) THEN CallsOfValues(v, i + 1)
  ELSE reconcileContextualValue(v[i], contexts, <<>>).calls \o CallsOfValues(v, i + 1)

Done(f) == op = f /\ pc = "done"
Returned(f) == Done(f) /\ outcome = "return"

----------------------------------------------------------------------------
(* C1 *)

\* C1: whenever hoistContextualValues(T, {contexts: C}) returns, the result
\* has exactly T's keys in T's order; a key whose value is not a function
\* holds reconcileContextualValue(T[key], C), a key whose value is a function
\* holds that function, and the only functions invoked are those invoked
\* while resolving the other values.
C1_HoistKeysAndValues ==
  Returned("hoistContextualValues") =>
    /\ ret.k = obj.k
    /\ \A i \in 1..Len(obj.k) :
         ret.v[i] = IF IsFn(obj.v[i]) THEN obj.v[i]
                    ELSE reconcileContextualValue(obj.v[i], contexts, <<>>).v
    /\ calls = CallsOfValues(obj.v, 1)

\* A template with a function and a rule object was hoisted, and a probe of
\* the store was invoked for the rule object
C1_Witness ==
  /\ Returned("hoistContextualValues")
  /\ \E i \in 1..Len(obj.k) : IsFn(obj.v[i]) /\ ret.v[i] = obj.v[i]
  /\ \E i \in 1..Len(obj.k) : IsObj(obj.v[i]) /\ ret.v[i] = S("n")
  /\ calls # <<>>

----------------------------------------------------------------------------
(* C2 *)

\* C2: whenever reconcileContextualValue returns for a rule object whose
\* keys are all criteria keys and at least one of them fully matches, the
\* result is that of the fully matching key with the most clauses, the last
\* enumerated among those with as many.
C2_BranchSelection ==
  (Returned("reconcileContextualValue") /\ IsCriteriaRule(obj) /\ Matching(obj) # {}) =>
    ret = BranchResult(obj, MostSpecificLast(obj))

\* The 2-clause key is enumerated first, the 1-clause key matches after it,
\* and the 2-clause key's value is the result
C2_Witness ==
  /\ Returned("reconcileContextualValue")
  /\ obj = RuleSpecific21
  /\ Matching(obj) = {1, 2}
  /\ ret = S("t")

----------------------------------------------------------------------------
(* C4 *)

\* A one-clause key @address:a||b and its two alternatives
IsOrKey(key) ==
  /\ Len(Parts(key)) = 1 /\ IsCriterionClause(key)
  /\ Len(Split(key, <<":", ":">>)) = 1
  /\ Len(Split(key, <<":">>)) = 2
  /\ Len(Split(Split(key, <<":">>)[2], <<"|", "|">>)) = 2

IsOrRule(x) ==
  /\ IsObj(x) /\ Len(x.k) = 2 /\ x.k[1] = K_default /\ IsOrKey(x.k[2])
  /\ x.v = <<S("d"), S("m")>>

Alternatives(key) == Split(Split(key, <<":">>)[2], <<"|", "|">>)

\* The resolved store value at the key's address
ResolvedAt(x, key) == getContextValue(Split(key, <<":">>)[1], contexts, <<x>>)

IsAlternative(key, x) == IsStr(x) /\ \E i \in 1..2 : Alternatives(key)[i] = x.s

\* C4 as stated: the key @ns.path:a||b matches exactly when the resolved
\* store value at @ns.path is the string a or the string b.
C4_OnlyEqualStrings ==
  (Done("reconcileContextualValue") /\ IsOrRule(obj)) =>
    ((outcome = "return" /\ ret = S("m"))
       <=> (ResolvedAt(obj, obj.k[2]).st = "return"
            /\ IsAlternative(obj.k[2], ResolvedAt(obj, obj.k[2]).v)))

\* C4, amended: the key @ns.path:a||b matches exactly when the resolved store
\* value at @ns.path is the string a or the string b, or is an array one of
\* whose elements is the string a or the string b.
C4_OrAlternation ==
  (Done("reconcileContextualValue") /\ IsOrRule(obj)) =>
    ((outcome = "return" /\ ret = S("m"))
       <=> (/\ ResolvedAt(obj, obj.k[2]).st = "return"
            /\ \/ IsAlternative(obj.k[2], ResolvedAt(obj, obj.k[2]).v)
               \/ /\ IsArr(ResolvedAt(obj, obj.k[2]).v)
                  /\ \E i \in 1..Len(ResolvedAt(obj, obj.k[2]).v.e) :
                       IsAlternative(obj.k[2], ResolvedAt(obj, obj.k[2]).v.e[i])))

\* The second alternative matched
C4_Witness ==
  /\ Returned("reconcileContextualValue")
  /\ obj = RuleOr
  /\ GetProp(GetProp(contexts, <<"@", "a">>), <<"x">>) = S("q")
  /\ ret = S("m")

----------------------------------------------------------------------------
(* C5 *)

IsRange(criteriaValue_) ==
  Includes(criteriaValue_, <<">", "=">>) \/ Includes(criteriaValue_, <<"<", "=">>)

\* No integer begins the string form of x
HasNoLeadingInteger(s, i) ==
  \/ i > Len(s)
  \/ (s[i] \in {"-", "+"} /\ (i + 1 > Len(s) \/ ~IsDigit(s[i + 1])))
  \/ (s[i] \notin {"-", "+"} /\ ~IsDigit(s[i]))

NonNumeric(x) ==
  \/ x.t \in {"undefined", "null", "NaN", "boolean", "object", "function"}
  \/ (x.t \in {"string", "array"} /\ HasNoLeadingInteger(ToStr(x), SkipSpaces(ToStr(x), 1)))

\* C5: doesCriteriaValueMatch returns without raising; an expression with >=
\* compares the integer-coerced actual value to its integer (>=17 matches 17
\* and 20 and fails for 16), >= is tested before <=, an expression with
\* neither is compared to the actual value's string form, and a range
\* comparison of a value whose string form begins with no integer is false.
C5_RangeComparator ==
  Done("doesCriteriaValueMatch") =>
    /\ outcome = "return"
    /\ (criteriaValue = E_ge17 /\ value.t = "number") => ret = Bool(value.n >= 17)
    /\ (criteriaValue = E_le11 /\ value.t = "number") => ret = Bool(value.n <= 11)
    /\ (criteriaValue = E_ge3le9 /\ value.t = "number") => ret = Bool(value.n >= 3)
    /\ (IsRange(criteriaValue) /\ NonNumeric(value)) => ret = Bool(FALSE)
    /\ ~IsRange(criteriaValue) => ret = Bool(ToStr(value) = criteriaValue)

\* 17 was compared with >=17 and matched
C5_Witness ==
  /\ Done("doesCriteriaValueMatch")
  /\ criteriaValue = E_ge17 /\ value = Num(17) /\ ret = Bool(TRUE)

----------------------------------------------------------------------------
(* Reference graph of a node and a store                                   *)

\* The addresses the argument list of a function-call clause resolves
ArgRefs(m) ==
  IF ~m.ok \/ m.args = <<>> THEN {}
  ELSE {Split(Split(m.args, <<",">>)[i], <<":">>)[2] :
          i \in {j \in 1..Len(Split(m.args, <<",">>)) :
                   /\ Len(Split(Split(m.args, <<",">>)[j], <<":">>)) >= 2
                   /\ Split(Split(m.args, <<",">>)[j], <<":">>)[2] # <<>>
                   /\ Split(Split(m.args, <<",">>)[j], <<":">>)[2][1] = "@"}}

\* The addresses one clause resolves
ClauseRefs(part) ==
  IF part = <<>> \/ part[1] # "@" THEN {}
  ELSE IF Len(Split(part, <<":", ":">>)) > 1
  THEN ArgRefs(MatchSignature(Split(part, <<":", ":">>)[2]))
  ELSE {Split(part, <<":">>)[1]}

StringRefs(s) == UNION {ClauseRefs(Parts(s)[i]) : i \in 1..Len(Parts(s))}

\* The addresses a node names: in its strings, its keys and its values
RECURSIVE Refs(_)
Refs(x) ==
  IF IsStr(x) THEN StringRefs(x.s)
  ELSE IF IsArr(x) THEN UNION {Refs(x.e[i]) : i \in 1..Len(x.e)}
  ELSE IF IsObj(x)
  THEN UNION {StringRefs(x.k[i]) \cup Refs(x.v[i]) : i \in 1..Len(x.k)}
  ELSE {}

\* What the store holds at an address
Deref(a) ==
  IF getNestedObjectProp(contexts, a).st = "return"
  THEN getNestedObjectProp(contexts, a).v
  ELSE Undefined

RefStep(A) == A \cup UNION {Refs(Deref(a)) : a \in A}

RECURSIVE RefClosure(_)
RefClosure(A) == IF RefStep(A) = A THEN A ELSE RefClosure(RefStep(A))

\* No address the node reaches resolves, directly or through rule objects,
\* back to itself
Acyclic(x) ==
  \A a \in RefClosure(Refs(x)) : a \notin RefClosure(Refs(Deref(a)))

\* The node the call resolves
InputNode == IF op = "getContextValue" THEN Str(address) ELSE obj

----------------------------------------------------------------------------
(* C3 *)

\* The seed as the fallback rule describes it
DeclaredSeed(x) ==
  IF HasProp(x, K_default) THEN GetProp(x, K_default) ELSE GetProp(x, K_value)

InvokedSeed(x) ==
  IF IsFn(DeclaredSeed(x))
  THEN ApplyFn(DeclaredSeed(x), Obj(<<K_contexts>>, <<contexts>>))
  ELSE DeclaredSeed(x)

\* C3: for a rule object whose keys are all criteria keys and none of which
\* fully matches the store, reconcileContextualValue raises no exception and
\* returns the resolution of the seed: default if present, otherwise value, a
\* callable seed replaced by what it returns for {contexts: store}.
C3_Fallback ==
  (/\ Done("reconcileContextualValue") /\ IsCriteriaRule(obj)
   /\ Matching(obj) = {} /\ Acyclic(obj)) =>
    /\ outcome = "return"
    /\ ret = Resolve(InvokedSeed(obj), contexts, <<obj>>, <<>>).v

----------------------------------------------------------------------------
(* C6 *)

ProbeSignature(key) == MatchSignature(Split(key, <<":", ":">>)[2])

ProbeTarget(key) ==
  IF /\ getNestedObjectProp(contexts, Split(key, <<":", ":">>)[1]).st = "return"
     /\ IsObj(getNestedObjectProp(contexts, Split(key, <<":", ":">>)[1]).v)
  THEN GetProp(getNestedObjectProp(contexts, Split(key, <<":", ":">>)[1]).v,
               ProbeSignature(key).functionName)
  ELSE Undefined

ProbeArgs(x, key) ==
  IF ProbeSignature(key).args # <<>>
  THEN BindArgs(Split(ProbeSignature(key).args, <<",">>), 1, contexts, <<x>>,
                Return(EmptyObj, <<>>))
  ELSE Return(EmptyObj, <<>>)

\* The value at `property` of what the probe returns
Extracted(x, key) ==
  ExtractProperty(ProbeSignature(key), ApplyFn(ProbeTarget(key), ProbeArgs(x, key).v))

\* {default: "d", [key]: "m"} with key one well-formed function-call clause
\* whose target is callable and whose return holds a value at `property`
IsProbeRule(x) ==
  /\ IsObj(x) /\ Len(x.k) = 2 /\ x.k[1] = K_default /\ x.v = <<S("d"), S("m")>>
  /\ Len(Parts(x.k[2])) = 1 /\ x.k[2][1] = "@"
  /\ Len(Split(x.k[2], <<":", ":">>)) = 2
  /\ ProbeSignature(x.k[2]).ok
  /\ IsFn(ProbeTarget(x.k[2]))
  /\ ProbeArgs(x, x.k[2]).st = "return"
  /\ IsObj(ApplyFn(ProbeTarget(x.k[2]), ProbeArgs(x, x.k[2]).v))
  /\ Extracted(x, x.k[2]).st = "return"

\* C6: for a well-formed function-call clause whose target is callable, the
\* clause counts as a matched part, so that its branch is selected, if and
\* only if the value extracted from the probe's return satisfies the
\* comparator against `match`, for 0 as for any other value; the extracted
\* value is then the clause's matched value.
C6_ProbeClause ==
  (Done("reconcileContextualValue") /\ IsProbeRule(obj)) =>
    /\ (outcome = "return" /\ ret = S("m"))
         <=> doesCriteriaValueMatch(Extracted(obj, obj.k[2]).v,
                                    ProbeSignature(obj.k[2]).match)
    /\ doesCriteriaValueMatch(Extracted(obj, obj.k[2]).v, ProbeSignature(obj.k[2]).match)
         => KeyPass(obj, 1).parsedValue = Extracted(obj, obj.k[2]).v

----------------------------------------------------------------------------
(* C7 *)

\* C7: hoistContextualValues, reconcileContextualValue and getContextValue
\* never raise a TypeError: a path through a primitive or null, a malformed
\* remainder, a target that is not callable and a probe return that is not a
\* mapping all yield "no match".
C7_NoConditionIsFatal == pc = "done" => outcome # "TypeError"

----------------------------------------------------------------------------
(* C8 *)

\* C8: no step of hoistContextualValues, reconcileContextualValue or
\* getContextValue changes the template or the store: both are, at every
\* depth, what they were before the call.
C8_InputsUnchanged == [][obj' = obj /\ contexts' = contexts]_vars

\* A hoist has written resolved values into its result, which differs from
\* the template
C8_Witness ==
  /\ Returned("hoistContextualValues")
  /\ Len(ret.k) >= 2 /\ ret.k = obj.k /\ ret # obj

----------------------------------------------------------------------------
(* C9 *)

IsAddressString(s) ==
  \E i \in 1..Len(Parts(s)) : Parts(s)[i] # <<>> /\ Parts(s)[i][1] = "@"

\* Numbers, booleans, strings that are not addresses, and arrays and plain
\* mappings of such values
RECURSIVE IsLiteral(_)
IsLiteral(x) ==
  \/ x.t \in {"number", "boolean"}
  \/ (IsStr(x) /\ ~IsAddressString(x.s))
  \/ (IsArr(x) /\ \A i \in 1..Len(x.e) : IsLiteral(x.e[i]))
  \/ /\ IsObj(x)
     /\ \A i \in 1..Len(x.k) :
          /\ x.k[i] \notin {K_default, K_value} /\ ~IsAddressString(x.k[i])
          /\ IsLiteral(x.v[i])

LiteralOnly(T) == IsObj(T) /\ IsLiteral(T)

\* C9: for a literal-only template T, hoistContextualValues(T, {contexts: C})
\* returns a mapping structurally equal to T.
C9_Idempotent ==
  (Done("hoistContextualValues") /\ LiteralOnly(obj)) =>
    (outcome = "return" /\ ret = obj)

----------------------------------------------------------------------------
(* C10 *)

\* C10: with a reference graph that is acyclic, the resolution of every node
\* terminates, a criterion-shaped string leaf that does not match included:
\* recursion is never unbounded.
C10_Terminates ==
  (pc = "done" /\ op # "doesCriteriaValueMatch" /\ Acyclic(InputNode)) =>
    outcome # "RangeError"

----------------------------------------------------------------------------
(* C11 *)

\* A truthy value that is not an object, not an array and not a string that
\* begins with @
IsLeaf(x) ==
  Truthy(x) /\ ~IsObj(x) /\ ~IsArr(x) /\ ~(IsStr(x) /\ x.s[1] = "@")

\* C11: reconcileContextualValue returns every leaf unchanged: every truthy
\* value that is not an object, not an array and not a string beginning with
\* @, whatever characters (spaces, @, :) occur later in a string.
C11_LeafPassThrough ==
  (Done("reconcileContextualValue") /\ IsLeaf(obj)) =>
    (outcome = "return" /\ ret = obj)

----------------------------------------------------------------------------
(* C12 *)

Remainder(key) == Split(key, <<":", ":">>)[2]
OpenBracket(key) == IndexOf(Remainder(key), <<"[">>, 1)
CloseBracket(key) == IndexOf(Remainder(key), <<"]">>, OpenBracket(key) + 1)

\* One function-call clause name[args]:match, its final colon right after ]
IsEmptyPropertyKey(key) ==
  /\ Len(Parts(key)) = 1 /\ key[1] = "@"
  /\ Len(Split(key, <<":", ":">>)) = 2
  /\ OpenBracket(key) >= 2 /\ CloseBracket(key) # 0
  /\ CloseBracket(key) + 2 <= Len(Remainder(key))
  /\ Remainder(key)[CloseBracket(key) + 1] = ":"
  /\ ~Includes(SubSeq(Remainder(key), CloseBracket(key) + 2, Len(Remainder(key))),
               <<":">>)

EmptyPropertyMatch(key) ==
  SubSeq(Remainder(key), CloseBracket(key) + 2, Len(Remainder(key)))

EmptyPropertyTarget(key) ==
  IF IsObj(Deref(Split(key, <<":", ":">>)[1]))
  THEN GetProp(Deref(Split(key, <<":", ":">>)[1]),
               SubSeq(Remainder(key), 1, OpenBracket(key) - 1))
  ELSE Undefined

EmptyPropertyArgs(x, key) ==
  IF CloseBracket(key) > OpenBracket(key) + 1
  THEN BindArgs(Split(SubSeq(Remainder(key), OpenBracket(key) + 1, CloseBracket(key) - 1),
                      <<",">>),
                1, contexts, <<x>>, Return(EmptyObj, <<>>))
  ELSE Return(EmptyObj, <<>>)

\* {default: "d", [key]: "m"} with such a key and a callable target
IsEmptyPropertyRule(x) ==
  /\ IsObj(x) /\ Len(x.k) = 2 /\ x.k[1] = K_default /\ x.v = <<S("d"), S("m")>>
  /\ IsEmptyPropertyKey(x.k[2])
  /\ IsFn(EmptyPropertyTarget(x.k[2]))
  /\ EmptyPropertyArgs(x, x.k[2]).st = "return"

\* C12: for a function-call clause with nothing between ] and its final
\* colon, the probe is invoked and its whole return value is compared to
\* `match`: the clause's branch is selected exactly when the whole value
\* satisfies the comparator.
C12_EmptyProperty ==
  (Done("reconcileContextualValue") /\ IsEmptyPropertyRule(obj)) =>
    /\ calls = EmptyPropertyArgs(obj, obj.k[2]).calls
                 \o <<Call(EmptyPropertyTarget(obj.k[2]), EmptyPropertyArgs(obj, obj.k[2]).v)>>
    /\ (outcome = "return" /\ ret = S("m"))
         <=> doesCriteriaValueMatch(
               ApplyFn(EmptyPropertyTarget(obj.k[2]), EmptyPropertyArgs(obj, obj.k[2]).v),
               EmptyPropertyMatch(obj.k[2]))

----------------------------------------------------------------------------
(* C13 *)

LastClause(key) == Parts(key)[Len(Parts(key))]

\* The value a matched clause records: the resolved context value of an
\* address clause, the extracted probe value of a function-call clause
RecordedBy(x, part) ==
  IF Len(Split(part, <<":", ":">>)) > 1 THEN Extracted(x, part).v
  ELSE ResolvedAt(x, part).v

WinningKey(x) == PossibleValues(x)[MostSpecificLast(x)]

\* C13: when the declared value of the winning criteria key is the string
\* "@value", the result is the resolution of the value recorded by the last
\* clause of that key, and never the string "@value".
C13_AtValue ==
  (/\ Returned("reconcileContextualValue") /\ IsCriteriaRule(obj)
   /\ Matching(obj) # {} /\ GetProp(obj, WinningKey(obj)) = Str(AtValue)) =>
    /\ ret = Resolve(RecordedBy(obj, LastClause(WinningKey(obj))),
                     contexts, <<obj>>, <<>>).v
    /\ ret # Str(AtValue)

\* The 2-clause key with @value won; a later key matched @a.x and recorded
\* another value; the result is what the key's last clause, @a.y:q, recorded
C13_Witness ==
  /\ Returned("reconcileContextualValue")
  /\ obj = RuleAtValueFirst /\ Matching(obj) = {1, 2}
  /\ ret = S("q")

----------------------------------------------------------------------------
(* C14 *)

\* A rule object of criteria keys whose default and declared values are
\* strings that resolve no further: every call is made by a clause
IsProbeCountRule(x) ==
  /\ IsCriteriaRule(x)
  /\ \A i \in 1..Len(x.v) : IsStr(x.v[i]) /\ x.v[i].s # <<>> /\ x.v[i].s[1] # "@"

\* One clause evaluated alone
ClauseRun(x, part) == EvalKey(part, contexts, <<x>>, Undefined, <<>>)
ClauseThrows(x, part) == ClauseRun(x, part).st # "return"
ClauseHolds(x, part) == ClauseRun(x, part).st = "return" /\ ~ClauseRun(x, part).brk

\* A function-call clause with a conforming signature and a callable target
IsCallableProbeClause(part) ==
  /\ part # <<>> /\ part[1] = "@"
  /\ Len(Split(part, <<":", ":">>)) > 1
  /\ ProbeSignature(part).ok
  /\ IsFn(ProbeTarget(part))

\* One invocation of the clause's probe, with one record of bound arguments
ClauseCalls(x, part) ==
  IF IsCallableProbeClause(part)
  THEN ProbeArgs(x, part).calls \o <<Call(ProbeTarget(part), ProbeArgs(x, part).v)>>
  ELSE <<>>

\* The calls of one key from clause i on: left to right, up to the first
\* clause that fails
RECURSIVE KeyCalls(_, _, _)
KeyCalls(x, parts, i) ==
  IF i > Len(parts) THEN [calls |-> <<>>, thrown |-> FALSE]
  ELSE IF ClauseThrows(x, parts[i])
  THEN [calls |-> ClauseCalls(x, parts[i]), thrown |-> TRUE]
  ELSE IF ClauseHolds(x, parts[i])
  THEN [KeyCalls(x, parts, i + 1) EXCEPT !.calls = ClauseCalls(x, parts[i]) \o @]
  ELSE [calls |-> ClauseCalls(x, parts[i]), thrown |-> FALSE]

\* The calls of the keys from key i on, up to an exception
RECURSIVE RuleCalls(_, _, _)
RuleCalls(x, keys, i) ==
  IF i > Len(keys) THEN <<>>
  ELSE KeyCalls(x, Parts(keys[i]), 1).calls
         \o (IF KeyCalls(x, Parts(keys[i]), 1).thrown THEN <<>>
             ELSE RuleCalls(x, keys, i + 1))

\* C14: the clauses of a key are evaluated left to right up to the first one
\* that fails; every function-call clause that is reached with a conforming
\* signature and a callable target invokes its probe exactly once, with one
\* record of bound arguments, and no other clause invokes anything.
C14_ProbeCalls ==
  (Done("reconcileContextualValue") /\ IsProbeCountRule(obj) /\ Acyclic(obj)) =>
    calls = RuleCalls(obj, PossibleValues(obj), 1)

----------------------------------------------------------------------------
(* C15 *)

\* null, a truthy primitive that is not a string beginning with @, a
\* callable, or an array of such values
RECURSIVE ResultShape(_)
ResultShape(x) ==
  \/ x = Null
  \/ (IsPrimitive(x) /\ Truthy(x) /\ ~(IsStr(x) /\ x.s[1] = "@"))
  \/ IsFn(x)
  \/ (IsArr(x) /\ \A i \in 1..Len(x.e) : ResultShape(x.e[i]))

----------------------------------------------------------------------------
(* C16 *)

\* @address with no matchSpec and no function call
IsBareKey(key) == Len(Parts(key)) = 1 /\ key[1] = "@" /\ ~Includes(key, <<":">>)

\* A rule object with a bare-address key and criteria keys, and no other key
IsBareRule(x) ==
  /\ IsObj(x)
  /\ \A i \in 1..Len(PossibleValues(x)) :
       IsBareKey(PossibleValues(x)[i]) \/ IsCriteriaKey(PossibleValues(x)[i])
  /\ \E i \in 1..Len(PossibleValues(x)) : IsBareKey(PossibleValues(x)[i])
  /\ \E i \in 1..Len(PossibleValues(x)) : IsCriteriaKey(PossibleValues(x)[i])

\* C16: in a rule object with a bare-address key and criteria keys, whenever
\* a criteria key fully matches, the result is that of the selected fully
\* matching key, wherever the bare-address key is enumerated.
C16_BareKeyTentative ==
  (/\ Done("reconcileContextualValue") /\ IsBareRule(obj) /\ Acyclic(obj)
   /\ Matching(obj) # {}) =>
    (outcome = "return" /\ ret = BranchResult(obj, MostSpecificLast(obj)))

====
